---- MODULE Spec2Model ----
(***************************************************************************)
(* Model of src/funciones.py: the column-level preparation functions of    *)
(* the fraud-scoring pipeline and the load/score pair.                     *)
(*                                                                         *)
(* A DataFrame is a sequence of columns, each a record                     *)
(*   [name |-> column label, vals |-> sequence of cells]                   *)
(* and a cell is a record [k, v, s]:                                       *)
(*   k = "num": a number, v its fixed-point numerator over Scale           *)
(*   k = "nan": the missing marker (IEEE NaN: every comparison is false)   *)
(*   k = "str": a text, s its sequence of one-character strings            *)
(***************************************************************************)
EXTENDS Integers, Sequences, FiniteSets, TLC

VARIABLES
    df,     \* the caller's table object (mutated by the in-place stages)
    hist,   \* the calls made so far: <<[op, args, before]>>
    ret,    \* outcome of the last call: [kind, val, err]
    out,    \* lines printed so far
    env     \* the artifact store: path -> file content

vars == <<df, hist, ret, out, env>>

(***************************************************************************)
(* Bounds of the model.                                                    *)
(***************************************************************************)
MaxRows == 4
MaxLen == 3

(***************************************************************************)
(* Numbers: fixed point.  Every number the model handles is a multiple of  *)
(* 1/Scale: the medians of two successive stages, the decimal texts of up   *)
(* to MaxLen characters and the thousandths of a probability are exact.    *)
(***************************************************************************)
RECURSIVE Pow10(_)
Pow10(n) ==
    IF n = 0 THEN 1 ELSE 10 * Pow10(n - 1)

Scale ==
    4 * Pow10(MaxLen)

Num(n) ==
    [k |-> "num", v |-> n, s |-> <<>>]

Entero(n) ==
    Num(n * Scale)

NaN ==
    [k |-> "nan", v |-> 0, s |-> <<>>]

Str(chars) ==
    [k |-> "str", v |-> 0, s |-> chars]

IsNum(c) ==
    c.k = "num"

isna(c) ==
    c.k = "nan"

\* IEEE comparisons of two cells: false as soon as one side is NaN.
Lt(a, b) ==
    IsNum(a) /\ IsNum(b) /\ a.v < b.v

Gt(a, b) ==
    IsNum(a) /\ IsNum(b) /\ a.v > b.v

Ge(a, b) ==
    IsNum(a) /\ IsNum(b) /\ a.v >= b.v

(***************************************************************************)
(* DataFrame primitives (pandas semantics the source relies on).           *)
(***************************************************************************)
columns(t) ==
    [i \in 1..Len(t) |-> t[i].name]

HasCol(t, c) ==
    \E i \in 1..Len(t) : t[i].name = c

ColIndex(t, c) ==
    CHOOSE i \in 1..Len(t) : t[i].name = c

\* df[c]
Col(t, c) ==
    t[ColIndex(t, c)].vals

\* df[c] = vals : overwrite in place when the label exists, else append last
SetColumn(t, c, vals) ==
    IF HasCol(t, c)
    THEN [t EXCEPT ![ColIndex(t, c)].vals = vals]
    ELSE Append(t, [name |-> c, vals |-> vals])

NRows(t) ==
    IF t = <<>> THEN 0 ELSE Len(t[1].vals)

Return(v) ==
    [kind |-> "return", val |-> v, err |-> ""]

Raise(e) ==
    [kind |-> "raise", val |-> <<>>, err |-> e]

Call(o, a, before) ==
    [op |-> o, args |-> a, before |-> before]

Last ==
    hist[Len(hist)]

(***************************************************************************)
(* Series.median(skipna=True)                                              *)
(***************************************************************************)
RECURSIVE Insert(_, _)
Insert(x, sorted) ==
    IF sorted = <<>> THEN <<x>>
    ELSE IF x <= Head(sorted) THEN <<x>> \o sorted
    ELSE <<Head(sorted)>> \o Insert(x, Tail(sorted))

RECURSIVE SortedNonMissing(_)
SortedNonMissing(vals) ==
    IF vals = <<>> THEN <<>>
    ELSE IF isna(Head(vals)) THEN SortedNonMissing(Tail(vals))
    ELSE Insert(Head(vals).v, SortedNonMissing(Tail(vals)))

median_lower(vals) ==
    LET xs == SortedNonMissing(vals)
        n == Len(xs)
    IN  IF n = 0 THEN NaN ELSE Num(xs[(n + 1) \div 2])

median(vals) ==
    LET xs == SortedNonMissing(vals)
        n == Len(xs)
    IN  IF n = 0 THEN NaN
        ELSE IF n % 2 = 1 THEN Num(xs[(n + 1) \div 2])
        ELSE Num((xs[n \div 2] + xs[n \div 2 + 1]) \div 2)

(***************************************************************************)
(* reemplazar_negativos_por_mediana                                        *)
(***************************************************************************)
NegativoPorMediana_le(c, mediana) ==
    IF Lt(c, Entero(0)) \/ c = Entero(0) THEN mediana ELSE c

\* np.where(df[col] < 0, mediana, df[col]) for one cell
NegativoPorMediana(c, mediana) ==
    IF Lt(c, Entero(0)) THEN mediana ELSE c

ReemplazarCol(vals) ==
    LET mediana == median(vals)
    IN  [i \in 1..Len(vals) |-> NegativoPorMediana(vals[i], mediana)]

\* the loop over columnas; df[col] on an absent label raises KeyError and
\* leaves the columns already processed rewritten
RECURSIVE ReemplazarLoop(_, _)
ReemplazarLoop(t, columnas) ==
    IF columnas = <<>> THEN [df |-> t, ret |-> Return(t)]
    ELSE IF ~HasCol(t, Head(columnas)) THEN [df |-> t, ret |-> Raise("KeyError")]
    ELSE ReemplazarLoop(
            SetColumn(t, Head(columnas), ReemplazarCol(Col(t, Head(columnas)))),
            Tail(columnas))

(***************************************************************************)
(* imputar_nulos_por_mediana                                               *)
(***************************************************************************)
fillna_keep(c, mediana) ==
    c

\* Series.fillna(mediana) for one cell
fillna(c, mediana) ==
    IF isna(c) THEN mediana ELSE c

ImputarCol(vals) ==
    LET mediana == median(vals)
    IN  [i \in 1..Len(vals) |-> fillna(vals[i], mediana)]

RECURSIVE ImputarLoop(_, _)
ImputarLoop(t, columnas) ==
    IF columnas = <<>> THEN [df |-> t, ret |-> Return(t)]
    ELSE IF ~HasCol(t, Head(columnas)) THEN [df |-> t, ret |-> Raise("KeyError")]
    ELSE ImputarLoop(
            SetColumn(t, Head(columnas), ImputarCol(Col(t, Head(columnas)))),
            Tail(columnas))

(***************************************************************************)
(* Specification of the two median stages.                                 *)
(***************************************************************************)
\* all sequences of length 1..n over S
SeqsUpTo(S, n) ==
    UNION {[1..m -> S] : m \in 1..n}

\* column lists a caller passes: no label twice; "Z" is in no table
ListasMediana ==
    {<<"A">>, <<"B">>, <<"A", "B">>, <<"B", "A">>, <<"A", "Z">>, <<"Z">>}

ValoresA ==
    {Entero(-5), Entero(-3), Entero(0), Entero(1), Entero(2), Entero(3), Entero(4), NaN}

ValoresPar ==
    {Entero(-5), Entero(2), NaN}

TablasMediana ==
    {<<[name |-> "A", vals |-> a]>> : a \in SeqsUpTo(ValoresA, MaxRows)}
    \cup
    UNION {{<<[name |-> "A", vals |-> a], [name |-> "B", vals |-> b]>> :
                a \in [1..m -> ValoresPar], b \in [1..m -> ValoresPar]} :
           m \in 1..(MaxRows - 1)}

InitMediana ==
    /\ df \in TablasMediana
    /\ hist = <<>>
    /\ ret = Return(<<>>)
    /\ out = <<>>
    /\ env = <<>>

\* the pipeline calls the corrector first, the imputer after it or alone, and
\* stops at an exception
reemplazar_negativos_por_mediana(columnas) ==
    /\ hist = <<>>
    /\ LET r == ReemplazarLoop(df, columnas)
       IN  /\ df' = r.df
           /\ ret' = r.ret
    /\ hist' = Append(hist, Call("reemplazar_negativos_por_mediana", columnas, df))
    /\ UNCHANGED <<out, env>>

imputar_nulos_por_mediana(columnas) ==
    /\ Len(hist) < 2
    /\ ret.kind = "return"
    /\ LET r == ImputarLoop(df, columnas)
       IN  /\ df' = r.df
           /\ ret' = r.ret
    /\ hist' = Append(hist, Call("imputar_nulos_por_mediana", columnas, df))
    /\ UNCHANGED <<out, env>>

Reemplazar ==
    \E columnas \in ListasMediana : reemplazar_negativos_por_mediana(columnas)

Imputar ==
    \E columnas \in ListasMediana : imputar_nulos_por_mediana(columnas)

NextMediana ==
    \/ Reemplazar
    \/ Imputar

SpecMediana ==
    InitMediana /\ [][NextMediana]_vars

(***************************************************************************)
(* Properties of the median stages.                                        *)
(***************************************************************************)
InList(c, lista) ==
    \E i \in 1..Len(lista) : lista[i] = c

Returned(o) ==
    /\ hist # <<>>
    /\ Last.op = o
    /\ ret.kind = "return"

EjemploNegativos ==
    <<Entero(-5), Entero(2), Entero(4), NaN>>

\* every listed column: a cell < 0 becomes the median of the column's
\* non-missing values as passed in, every other cell (>= 0 or missing) stays
NegativosCorregidos ==
    Returned("reemplazar_negativos_por_mediana") =>
        \A c \in {"A", "B"} :
            InList(c, Last.args) =>
                \A i \in 1..NRows(df) :
                    LET antes == Col(Last.before, c)
                    IN  Col(df, c)[i] =
                            IF IsNum(antes[i]) /\ antes[i].v < 0
                            THEN median(antes) ELSE antes[i]

EjemploNegativosPasado ==
    /\ Returned("reemplazar_negativos_por_mediana")
    /\ InList("A", Last.args)
    /\ Col(Last.before, "A") = EjemploNegativos

\* C6 as stated: negatives become the median of the non-missing values, the
\* rest is unchanged, and [-5, 2, 4, missing] becomes [3, 2, 4, missing].
C6_Original ==
    /\ NegativosCorregidos
    /\ EjemploNegativosPasado =>
            Col(df, "A") = <<Entero(3), Entero(2), Entero(4), NaN>>

\* C6 amended: reemplazar_negativos_por_mediana replaces, in each listed
\* column, every value < 0 with the median of the column's non-missing values
\* (the negative ones included) and leaves values >= 0 and missing values
\* unchanged; [-5, 2, 4, missing] becomes [2, 2, 4, missing] (median = 2).
C6_Amended ==
    /\ NegativosCorregidos
    /\ EjemploNegativosPasado =>
            Col(df, "A") = <<Entero(2), Entero(2), Entero(4), NaN>>

C6_Witness ==
    EjemploNegativosPasado

Pipeline ==
    /\ Len(hist) = 2
    /\ hist[1].op = "reemplazar_negativos_por_mediana"
    /\ hist[2].op = "imputar_nulos_por_mediana"
    /\ ret.kind = "return"

\* the table the pipeline started from has a row with a negative value in a
\* corrected column and a missing value in an imputed column
FilaNegativaYNula ==
    \E c \in {"A", "B"}, d \in {"A", "B"} :
        /\ InList(c, hist[1].args)
        /\ InList(d, hist[2].args)
        /\ \E i \in 1..NRows(df) :
            /\ Lt(Col(hist[1].before, c)[i], Entero(0))
            /\ isna(Col(hist[1].before, d)[i])

SinNegativos(vals) ==
    \A i \in 1..Len(vals) : ~Lt(vals[i], Entero(0))

SinNulos(vals) ==
    \A i \in 1..Len(vals) : ~isna(vals[i])

\* C7 as stated: after corrector then imputer, no corrected column holds a
\* negative value and no imputed column holds a missing value.
C7_Original ==
    (Pipeline /\ FilaNegativaYNula) =>
        /\ \A c \in {"A", "B"} :
                InList(c, hist[1].args) => SinNegativos(Col(df, c))
        /\ \A d \in {"A", "B"} :
                InList(d, hist[2].args) => SinNulos(Col(df, d))

\* C7 amended: after corrector then imputer on such a table, a corrected
\* column whose median of non-missing values (in the table as passed in) is
\* not negative holds no negative value, and an imputed column that has at
\* least one non-missing value holds no missing value.
C7_Amended ==
    (Pipeline /\ FilaNegativaYNula) =>
        /\ \A c \in {"A", "B"} :
                (/\ InList(c, hist[1].args)
                 /\ ~Lt(median(Col(hist[1].before, c)), Entero(0)))
                    => SinNegativos(Col(df, c))
        /\ \A d \in {"A", "B"} :
                (/\ InList(d, hist[2].args)
                 /\ \E i \in 1..NRows(df) : ~isna(Col(hist[1].before, d)[i]))
                    => SinNulos(Col(df, d))

C7_Witness ==
    /\ Pipeline
    /\ hist[1].args = <<"A">>
    /\ hist[2].args = <<"B">>
    /\ Col(hist[1].before, "A") = <<Entero(-5), Entero(2), Entero(2)>>
    /\ Col(hist[1].before, "B") = <<NaN, Entero(-5), Entero(2)>>
    /\ FilaNegativaYNula

EjemploNulos ==
    <<NaN, Entero(1), Entero(3)>>

EjemploNulosPasado ==
    /\ Returned("imputar_nulos_por_mediana")
    /\ InList("A", Last.args)
    /\ Col(Last.before, "A") = EjemploNulos

\* C8: imputar_nulos_por_mediana replaces, in each listed column, every
\* missing value with the median of the non-missing values of the column as
\* passed in and leaves the other values untouched; a column without missing
\* values is unchanged, a column with a non-missing value ends with no missing
\* value, and [missing, 1, 3] becomes [2, 1, 3].
C8_Imputar ==
    /\ Returned("imputar_nulos_por_mediana") =>
            \A c \in {"A", "B"} :
                InList(c, Last.args) =>
                    LET antes == Col(Last.before, c)
                        noNulos == {i \in 1..Len(antes) : ~isna(antes[i])}
                    IN  /\ \A i \in noNulos : Col(df, c)[i] = antes[i]
                        /\ noNulos = 1..Len(antes) => Col(df, c) = antes
                        /\ noNulos # {} => SinNulos(Col(df, c))
                        /\ \A i \in (1..Len(antes)) \ noNulos :
                                Col(df, c)[i] = median(antes)
    /\ EjemploNulosPasado =>
            Col(df, "A") = <<Entero(2), Entero(1), Entero(3)>>

C8_Witness ==
    EjemploNulosPasado

(***************************************************************************)
(* binarizar_variables                                                     *)
(***************************************************************************)
BinarizarCelda_ge(c, corte) ==
    IF Ge(c, corte) THEN Entero(1) ELSE Entero(0)

\* np.where(df[col] > corte, 1, 0) for one cell
BinarizarCelda(c, corte) ==
    IF Gt(c, corte) THEN Entero(1) ELSE Entero(0)

\* one of the two loops: absent labels are skipped (if col in df.columns)
RECURSIVE BinarizarLoop(_, _, _)
BinarizarLoop(t, cols, corte) ==
    IF cols = <<>> THEN t
    ELSE LET col == Head(cols)
         IN  IF HasCol(t, col)
             THEN BinarizarLoop(
                    SetColumn(t, col,
                        [i \in 1..NRows(t) |-> BinarizarCelda(Col(t, col)[i], corte)]),
                    Tail(cols), corte)
             ELSE BinarizarLoop(t, Tail(cols), corte)

Binarizar(t, vars_corte_0, vars_corte_1) ==
    BinarizarLoop(BinarizarLoop(t, vars_corte_0, Entero(0)), vars_corte_1, Entero(1))

\* the two cut lists of a call: disjoint, no label twice; "Z" is in no table
ListasCorte ==
    {<<>>, <<"A">>, <<"B">>, <<"Z">>, <<"A", "B">>, <<"Z", "A">>, <<"B", "Z">>}

Disjuntas(l0, l1) ==
    \A i \in 1..Len(l0), j \in 1..Len(l1) : l0[i] # l1[j]

ValoresBin ==
    {Entero(-1), Entero(0), Entero(1), Entero(2), Entero(5), NaN}

ValoresBinPar ==
    {Entero(0), Entero(1), Entero(2), NaN}

TablasBinarizar ==
    {<<[name |-> "A", vals |-> a]>> : a \in SeqsUpTo(ValoresBin, MaxRows)}
    \cup
    UNION {{<<[name |-> "A", vals |-> a], [name |-> "B", vals |-> b]>> :
                a \in [1..m -> ValoresBinPar], b \in [1..m -> ValoresBinPar]} :
           m \in 1..(MaxRows - 2)}

InitBinarizar ==
    /\ df \in TablasBinarizar
    /\ hist = <<>>
    /\ ret = Return(<<>>)
    /\ out = <<>>
    /\ env = <<>>

binarizar_variables(vars_corte_0, vars_corte_1) ==
    /\ hist = <<>>
    /\ ret' = Return(Binarizar(df, vars_corte_0, vars_corte_1))
    /\ hist' = Append(hist,
            Call("binarizar_variables", <<vars_corte_0, vars_corte_1>>, df))
    /\ UNCHANGED <<df, out, env>>

\* the caller passes two disjoint lists
NextBinarizar ==
    \E l0 \in ListasCorte, l1 \in ListasCorte :
        /\ Disjuntas(l0, l1)
        /\ binarizar_variables(l0, l1)

SpecBinarizar ==
    InitBinarizar /\ [][NextBinarizar]_vars

Uno ==
    Entero(1)

Cero ==
    Entero(0)

EjemploCorte0 ==
    /\ Returned("binarizar_variables")
    /\ InList("A", Last.args[1])
    /\ Col(Last.before, "A") = <<Entero(-1), Entero(0), Entero(1), Entero(5)>>

EjemploCorte1 ==
    /\ Returned("binarizar_variables")
    /\ InList("A", Last.args[2])
    /\ Col(Last.before, "A") = <<Entero(0), Entero(1), Entero(2)>>

\* C9: binarizar_variables maps every cell of a present cut-at-0 column to 1
\* if its value > 0 else 0 and every cell of a present cut-at-1 column to 1 if
\* its value > 1 else 0 (a missing value gives 0 under both); a listed label
\* absent from the table raises nothing and creates no column; columns in
\* neither list are unchanged; [-1,0,1,5] -> [0,0,1,1] and [0,1,2] -> [0,0,1].
C9_Binarizar ==
    /\ (hist # <<>> /\ Last.op = "binarizar_variables") => ret.kind = "return"
    /\ Returned("binarizar_variables") =>
        /\ columns(ret.val) = columns(Last.before)
        /\ \A j \in 1..Len(Last.before) :
            LET antes == Last.before[j].vals
                despues == ret.val[j].vals
                col == Last.before[j].name
            IN  /\ Len(despues) = Len(antes)
                /\ \A i \in 1..Len(antes) :
                    IF InList(col, Last.args[1])
                    THEN despues[i] =
                            IF antes[i].k = "num" /\ antes[i].v > 0
                            THEN Uno ELSE Cero
                    ELSE IF InList(col, Last.args[2])
                    THEN despues[i] =
                            IF antes[i].k = "num" /\ antes[i].v > Scale
                            THEN Uno ELSE Cero
                    ELSE despues[i] = antes[i]
    /\ EjemploCorte0 => Col(ret.val, "A") = <<Cero, Cero, Uno, Uno>>
    /\ EjemploCorte1 => Col(ret.val, "A") = <<Cero, Cero, Uno>>

C9_Witness ==
    /\ EjemploCorte0
    /\ Last.args = <<<<"Z", "A">>, <<"B">>>>

(***************************************************************************)
(* seleccion_variables                                                     *)
(***************************************************************************)
\* the module-level default of lista_vars
variables ==
    <<"A", "B", "C", "D", "E", "H", "J", "M",
      "N", "O", "P", "Q", "R", "S", "Monto">>

RECURSIVE Unique(_)
Unique(l) ==
    IF l = <<>> THEN <<>>
    ELSE IF InList(l[Len(l)], SubSeq(l, 1, Len(l) - 1))
         THEN Unique(SubSeq(l, 1, Len(l) - 1))
         ELSE Append(Unique(SubSeq(l, 1, Len(l) - 1)), l[Len(l)])

\* the requested labels that are not columns of t, in request order
Missing(t, lista_vars) ==
    SelectSeq(lista_vars, LAMBDA c : ~HasCol(t, c))

KeyErrorNames_all(t, lista_vars) ==
    lista_vars

\* the labels the KeyError of df[lista_vars] carries: the whole request when
\* none of it is a column, else the missing labels, each once
KeyErrorNames(t, lista_vars) ==
    IF Len(Missing(t, lista_vars)) = Len(lista_vars)
    THEN lista_vars
    ELSE Unique(Missing(t, lista_vars))

RaiseNaming(e, names) ==
    [kind |-> "raise", val |-> names, err |-> e]

\* df[lista_vars]: the requested columns in the requested order
Seleccion(t, lista_vars) ==
    IF Missing(t, lista_vars) = <<>>
    THEN Return([i \in 1..Len(lista_vars) |->
                    [name |-> lista_vars[i], vals |-> Col(t, lista_vars[i])]])
    ELSE RaiseNaming("KeyError", KeyErrorNames(t, lista_vars))

MaxCols == 3

EtiquetasTabla ==
    {"A", "B", "Monto", "X"}

SinRepetir(l) ==
    \A i, j \in 1..Len(l) : l[i] = l[j] => i = j

\* one-row tables with up to MaxCols distinct labels, and the full default
\* set (with or without "Monto") followed by an extra column
TablasSeleccion ==
    UNION {{[i \in 1..n |-> [name |-> l[i], vals |-> <<v[i]>>]] :
                l \in {x \in [1..n -> EtiquetasTabla] : SinRepetir(x)},
                v \in [1..n -> {Entero(0), Entero(1)}]} :
           n \in 1..MaxCols}
    \cup
    {[i \in 1..(n + 1) |->
        [name |-> IF i <= n THEN variables[i] ELSE "X", vals |-> <<Entero(i % 2)>>]] :
     n \in {Len(variables) - 1, Len(variables)}}

ListasSeleccion ==
    {<<>>} \cup SeqsUpTo({"A", "B", "Monto", "Z", "W"}, 2)

InitSeleccion ==
    /\ df \in TablasSeleccion
    /\ hist = <<>>
    /\ ret = Return(<<>>)
    /\ out = <<>>
    /\ env = <<>>

seleccion_variables(lista_vars) ==
    /\ hist = <<>>
    /\ ret' = Seleccion(df, lista_vars)
    /\ hist' = Append(hist, Call("seleccion_variables", lista_vars, df))
    /\ UNCHANGED <<df, out, env>>

NextSeleccion ==
    \/ \E lista_vars \in ListasSeleccion : seleccion_variables(lista_vars)
    \/ seleccion_variables(variables)

SpecSeleccion ==
    InitSeleccion /\ [][NextSeleccion]_vars

Elems(l) ==
    {l[i] : i \in 1..Len(l)}

\* C4: seleccion_variables returns exactly the requested columns in the
\* requested order when all are present, and otherwise raises an error naming
\* exactly the missing columns and returns no table.
C4_Seleccion ==
    (hist # <<>> /\ Last.op = "seleccion_variables") =>
        LET pedidas == Last.args
            faltan == {c \in Elems(pedidas) :
                        \A j \in 1..Len(Last.before) : Last.before[j].name # c}
        IN  IF faltan = {}
            THEN /\ ret.kind = "return"
                 /\ Len(ret.val) = Len(pedidas)
                 /\ \A i \in 1..Len(pedidas) :
                        /\ ret.val[i].name = pedidas[i]
                        /\ \E j \in 1..Len(Last.before) :
                            /\ Last.before[j].name = pedidas[i]
                            /\ Last.before[j].vals = ret.val[i].vals
            ELSE /\ ret.kind = "raise"
                 /\ ret.err = "KeyError"
                 /\ Elems(ret.val) = faltan

C4_Witness ==
    /\ hist # <<>>
    /\ Last.op = "seleccion_variables"
    /\ Last.args = <<"Monto", "Z">>
    /\ columns(Last.before) = <<"A", "Monto", "X">>
    /\ ret = RaiseNaming("KeyError", <<"Z">>)

(***************************************************************************)
(* dummificar_var_categorica                                               *)
(***************************************************************************)
\* the literal 'OTROS'
OTROS ==
    <<"O", "T", "R", "O", "S">>

LabelOTHER ==
    <<"O", "T", "H", "E", "R">>

\* a text as one string, as an f-string renders it
RECURSIVE StrOf(_)
StrOf(chars) ==
    IF chars = <<>> THEN "" ELSE Head(chars) \o StrOf(Tail(chars))

\* f"{columna}_{cat}"
DummyName(columna, cat) ==
    columna \o "_" \o StrOf(cat)

\* np.where(df[columna].isin(categorias_principales), df[columna], 'OTROS')
Agrupar(vals, categorias_principales) ==
    [i \in 1..Len(vals) |->
        IF \E j \in 1..Len(categorias_principales) :
                vals[i] = Str(categorias_principales[j])
        THEN vals[i] ELSE Str(OTROS)]

\* [cat for cat in df[columna].unique() if cat != referencia]:
\* the distinct values in order of first appearance, the reference left out
Categorias(vals, referencia) ==
    SelectSeq(Unique([i \in 1..Len(vals) |-> vals[i].s]),
              LAMBDA cat : cat # referencia)

\* the loop creating one 0/1 column per category
RECURSIVE DummiesLoop(_, _, _)
DummiesLoop(t, columna, categorias) ==
    IF categorias = <<>> THEN t
    ELSE DummiesLoop(
            SetColumn(t, DummyName(columna, Head(categorias)),
                [i \in 1..NRows(t) |->
                    IF Col(t, columna)[i] = Str(Head(categorias))
                    THEN Entero(1) ELSE Entero(0)]),
            columna, Tail(categorias))

\* df.drop(columns=columna)
Drop(t, columna) ==
    SelectSeq(t, LAMBDA c : c.name # columna)

Dummificar(t, columna, categorias_principales, referencia) ==
    IF ~HasCol(t, columna) THEN Raise("KeyError")
    ELSE LET agrupada == SetColumn(t, columna,
                            Agrupar(Col(t, columna), categorias_principales))
         IN  Return(Drop(
                DummiesLoop(agrupada, columna,
                    Categorias(Col(agrupada, columna), referencia)),
                columna))

ValoresCategoria ==
    {Str(<<"X">>), Str(<<"Y">>), Str(<<"Z">>), Str(<<"W">>)}

\* a categorical column "J" next to a numeric column "Monto"
TablasDummies ==
    UNION {{<<[name |-> "J", vals |-> j],
              [name |-> "Monto", vals |-> [i \in 1..m |-> Entero(i)]]>> :
                j \in [1..m -> ValoresCategoria]} :
           m \in 1..MaxRows}

InitDummies ==
    /\ df \in TablasDummies
    /\ hist = <<>>
    /\ ret = Return(<<>>)
    /\ out = <<>>
    /\ env = <<>>

dummificar_var_categorica(columna, categorias_principales, referencia) ==
    /\ hist = <<>>
    /\ ret' = Dummificar(df, columna, categorias_principales, referencia)
    /\ hist' = Append(hist, Call("dummificar_var_categorica",
            [columna |-> columna,
             categorias_principales |-> categorias_principales,
             referencia |-> referencia], df))
    /\ UNCHANGED <<df, out, env>>

DummificarConReferencia ==
    \E columna \in {"J", "K"},
       categorias_principales \in {<<>>, <<<<"X">>>>, <<<<"X">>, <<"Y">>>>},
       referencia \in {LabelOTHER, OTROS, <<"X">>} :
        dummificar_var_categorica(columna, categorias_principales, referencia)

\* referencia left to its default 'OTROS'
DummificarPorDefecto ==
    \E categorias_principales \in {<<<<"X">>, <<"Y">>>>, <<<<"Z">>, <<"W">>>>} :
        dummificar_var_categorica("J", categorias_principales, OTROS)

NextDummies ==
    \/ DummificarConReferencia
    \/ DummificarPorDefecto

SpecDummies ==
    InitDummies /\ [][NextDummies]_vars

\* the indicator columns of the returned table: every column but "Monto"
Indicadores(t) ==
    {t[i].name : i \in {j \in 1..Len(t) : t[j].name # "Monto"}}

\* the values of the column once every value outside the preserve-list is
\* rewritten to the reference label
Reescritas(vals, principales, referencia) ==
    {IF \E j \in 1..Len(principales) : vals[i].s = principales[j]
     THEN vals[i].s ELSE referencia : i \in 1..Len(vals)}

\* C5 as stated: values outside the preserve-list are rewritten to the
\* reference label, one indicator column is made per distinct value present
\* other than the reference label and the original column is dropped; with
\* preserve-list [X, Y], reference OTHER and values [X, Z, Y, W] the indicator
\* columns are exactly those of X and Y.
C5_Claim ==
    Returned("dummificar_var_categorica") =>
        LET a == Last.args
            antes == Col(Last.before, a.columna)
        IN  /\ Indicadores(ret.val) =
                {DummyName(a.columna, cat) :
                    cat \in Reescritas(antes, a.categorias_principales, a.referencia)
                            \ {a.referencia}}
            /\ (/\ antes = <<Str(<<"X">>), Str(<<"Z">>), Str(<<"Y">>), Str(<<"W">>)>>
                /\ a.categorias_principales = <<<<"X">>, <<"Y">>>>
                /\ a.referencia = LabelOTHER)
                    => Indicadores(ret.val) = {"J_X", "J_Y"}

(***************************************************************************)
(* limpiar_y_convertir                                                     *)
(***************************************************************************)
DigitChars ==
    <<"0", "1", "2", "3", "4", "5", "6", "7", "8", "9">>

IsDigit(ch) ==
    \E d \in 1..10 : DigitChars[d] = ch

DigitValue(ch) ==
    (CHOOSE d \in 1..10 : DigitChars[d] = ch) - 1

\* the decimal digits of a natural number
RECURSIVE Digits(_)
Digits(n) ==
    IF n < 10 THEN <<DigitChars[n + 1]>>
    ELSE Append(Digits(n \div 10), DigitChars[(n % 10) + 1])

\* the digits after the point of r / Scale, 0 <= r < Scale
RECURSIVE FractionDigits(_)
FractionDigits(r) ==
    IF r = 0 THEN <<>>
    ELSE <<DigitChars[((10 * r) \div Scale) + 1]>>
            \o FractionDigits((10 * r) % Scale)

Abs(n) ==
    IF n < 0 THEN -n ELSE n

FloatRepr_trunc(n) ==
    (IF n < 0 THEN <<"-">> ELSE <<>>) \o Digits(Abs(n) \div Scale) \o <<".", "0">>

\* str(float): sign, integer digits, point, at least one fraction digit
FloatRepr(n) ==
    (IF n < 0 THEN <<"-">> ELSE <<>>)
        \o Digits(Abs(n) \div Scale)
        \o <<".">>
        \o (IF Abs(n) % Scale = 0 THEN <<"0">> ELSE FractionDigits(Abs(n) % Scale))

\* .astype(str) for one cell (a column of whole numbers held as int64 prints
\* without the ".0", which parses to the same number)
AsStr(c) ==
    IF c.k = "str" THEN c.s
    ELSE IF c.k = "nan" THEN <<"n", "a", "n">>
    ELSE FloatRepr(c.v)

\* .str.replace(',', '', regex=False)
RemoveCommas(chars) ==
    SelectSeq(chars, LAMBDA ch : ch # ",")

RECURSIVE LStrip(_)
LStrip(chars) ==
    IF chars # <<>> /\ Head(chars) = " " THEN LStrip(Tail(chars)) ELSE chars

RECURSIVE RStrip(_)
RStrip(chars) ==
    IF chars # <<>> /\ chars[Len(chars)] = " "
    THEN RStrip(SubSeq(chars, 1, Len(chars) - 1)) ELSE chars

\* .str.strip()
Strip(chars) ==
    RStrip(LStrip(chars))

AllDigits(chars) ==
    \A i \in 1..Len(chars) : IsDigit(chars[i])

\* value of a digit string as an integer
RECURSIVE IntValue(_)
IntValue(chars) ==
    IF chars = <<>> THEN 0
    ELSE 10 * IntValue(SubSeq(chars, 1, Len(chars) - 1))
            + DigitValue(chars[Len(chars)])

\* value of the digits after the point, over Scale
RECURSIVE FractionValue(_, _)
FractionValue(chars, unit) ==
    IF chars = <<>> THEN 0
    ELSE DigitValue(Head(chars)) * (unit \div 10)
            + FractionValue(Tail(chars), unit \div 10)

PointAt(chars) ==
    CHOOSE i \in 1..Len(chars) : chars[i] = "."

\* an unsigned decimal: digits, at most one point, at least one digit
IsDecimal(chars) ==
    IF \E i \in 1..Len(chars) : chars[i] = "."
    THEN LET p == PointAt(chars)
         IN  /\ AllDigits(SubSeq(chars, 1, p - 1))
             /\ AllDigits(SubSeq(chars, p + 1, Len(chars)))
             /\ Len(chars) > 1
    ELSE chars # <<>> /\ AllDigits(chars)

DecimalValue(chars) ==
    IF \E i \in 1..Len(chars) : chars[i] = "."
    THEN LET p == PointAt(chars)
         IN  IntValue(SubSeq(chars, 1, p - 1)) * Scale
                + FractionValue(SubSeq(chars, p + 1, Len(chars)), Scale)
    ELSE IntValue(chars) * Scale

HasSign(chars) ==
    chars # <<>> /\ Head(chars) \in {"-", "+"}

\* pd.to_numeric(..., errors='coerce') for one text: an optionally signed
\* decimal becomes its number, anything else ("nan" included) becomes NaN
ToNumeric(chars) ==
    LET body == IF HasSign(chars) THEN Tail(chars) ELSE chars
    IN  IF IsDecimal(body)
        THEN Num(IF Head(chars) = "-" THEN -DecimalValue(body) ELSE DecimalValue(body))
        ELSE NaN

LimpiarCelda(c) ==
    ToNumeric(Strip(RemoveCommas(AsStr(c))))

RECURSIVE LimpiarLoop(_, _)
LimpiarLoop(t, columnas) ==
    IF columnas = <<>> THEN [df |-> t, ret |-> Return(t)]
    ELSE IF ~HasCol(t, Head(columnas)) THEN [df |-> t, ret |-> Raise("KeyError")]
    ELSE LimpiarLoop(
            SetColumn(t, Head(columnas),
                [i \in 1..NRows(t) |-> LimpiarCelda(Col(t, Head(columnas))[i])]),
            Tail(columnas))

Alfabeto ==
    {"1", "5", ",", ".", " ", "-", "x"}

\* every text of at most MaxLen characters of the alphabet
Textos ==
    {<<>>} \cup SeqsUpTo(Alfabeto, MaxLen)

Ejemplos ==
    {<<"1", ",", "2", "3", "4", ".", "8">>,
     <<" ", " ", "4", "2", " ">>,
     <<"N", "/", "A">>,
     <<"a", "b", "c">>}

CeldasSegunda ==
    {Str(e) : e \in Ejemplos} \cup {NaN, Num((5 * Scale) \div 2), Entero(-3)}

\* a two-row target column "Monto" beside a text column "J"
TablasLimpiar ==
    {<<[name |-> "Monto", vals |-> <<Str(a), b>>],
       [name |-> "J", vals |-> <<Str(<<"1", ",", "5">>), Str(<<"x">>)>>]>> :
        a \in Textos, b \in CeldasSegunda}

ListasLimpiar ==
    {<<"Monto">>, <<"Monto", "Z">>, <<"Z">>}

InitLimpiar ==
    /\ df \in TablasLimpiar
    /\ hist = <<>>
    /\ ret = Return(<<>>)
    /\ out = <<>>
    /\ env = <<>>

\* called once, or a second time on its own result
limpiar_y_convertir(columnas) ==
    /\ Len(hist) < 2
    /\ ret.kind = "return"
    /\ LET r == LimpiarLoop(df, columnas)
       IN  /\ df' = r.df
           /\ ret' = r.ret
    /\ hist' = Append(hist, Call("limpiar_y_convertir", columnas, df))
    /\ UNCHANGED <<out, env>>

NextLimpiar ==
    \E columnas \in ListasLimpiar : limpiar_y_convertir(columnas)

SpecLimpiar ==
    InitLimpiar /\ [][NextLimpiar]_vars

\* what the claim's examples must give: "1,234.8", "  42 ", "N/A", "abc"
EsperadoEjemplo(c) ==
    IF c = Str(<<"1", ",", "2", "3", "4", ".", "8">>)
        THEN Num(1234 * Scale + 8 * (Scale \div 10))
    ELSE IF c = Str(<<" ", " ", "4", "2", " ">>) THEN Entero(42)
    ELSE IF c \in {Str(<<"N", "/", "A">>), Str(<<"a", "b", "c">>)} THEN NaN
    ELSE IF c = Str(<<"1", ",", "5">>) THEN Entero(15)
    ELSE IF c = Str(<<" ", "-", "5">>) THEN Entero(-5)
    ELSE IF c = Str(<<"1", ".", "5">>) THEN Num((3 * Scale) \div 2)
    ELSE IF c \in {Str(<<"1", " ", "5">>), Str(<<>>), Str(<<".">>), Str(<<",", "x">>)}
        THEN NaN
    ELSE IF c.k = "str" THEN ToNumeric(Strip(RemoveCommas(c.s)))
    ELSE c

\* C10: limpiar_y_convertir raises for no cell: in each target column a cell
\* whose text, commas removed and whitespace trimmed, parses as a number
\* becomes that number and any other cell the missing marker; columns outside
\* the target list stay untouched; a second application changes nothing.
C10_Limpiar ==
    (hist # <<>> /\ Last.op = "limpiar_y_convertir") =>
        /\ (\A i \in 1..Len(Last.args) : HasCol(Last.before, Last.args[i]))
                => ret.kind = "return"
        /\ Returned("limpiar_y_convertir") =>
            /\ columns(df) = columns(Last.before)
            /\ \A j \in 1..Len(df) :
                IF InList(df[j].name, Last.args)
                THEN \A i \in 1..Len(df[j].vals) :
                        /\ df[j].vals[i].k \in {"num", "nan"}
                        /\ df[j].vals[i] = EsperadoEjemplo(Last.before[j].vals[i])
                ELSE df[j] = Last.before[j]
        /\ (Returned("limpiar_y_convertir") /\ Len(hist) = 2
                /\ hist[1].args = hist[2].args)
                => df = Last.before

C10_Witness ==
    /\ Returned("limpiar_y_convertir")
    /\ Len(hist) = 2
    /\ hist[1].args = <<"Monto">>
    /\ hist[2].args = <<"Monto">>
    /\ Col(hist[1].before, "Monto") =
            <<Str(<<" ", "x", ",">>), Str(<<"1", ",", "2", "3", "4", ".", "8">>)>>
    /\ Col(df, "Monto") = <<NaN, Num(1234 * Scale + 8 * (Scale \div 10))>>

(***************************************************************************)
(* cargar_modelo and ejecutar_modelo                                       *)
(*                                                                         *)
(* A file of the store is "corrupt" or holds a pickled object; an object   *)
(* is a record [kind, schema, p]:                                          *)
(*   kind = "model":  predict_proba gives p[value of column "A"] per row   *)
(*                    when the table's columns are its schema, and raises  *)
(*                    otherwise                                            *)
(*   kind = "broken": predict_proba raises on every table                  *)
(*   kind = "other":  an object without predict_proba                      *)
(*   kind = "None":   Python's None                                        *)
(***************************************************************************)
\* n thousandths
Milli(n) ==
    Num(n * (Scale \div 1000))

Probs ==
    {Milli(500), Milli(565), Milli(600)}

None ==
    [kind |-> "None", schema |-> <<>>, p |-> <<>>]

Modelos ==
    {[kind |-> "model", schema |-> sc, p |-> [v \in {Cero, Uno} |-> f[v.v \div Scale + 1]]] :
        sc \in {<<"A">>, <<"A", "B">>}, f \in [1..2 -> Probs]}

Objetos ==
    Modelos \cup {[kind |-> "broken", schema |-> <<>>, p |-> <<>>],
                  [kind |-> "other", schema |-> <<>>, p |-> <<>>]}

Corrupt ==
    [kind |-> "corrupt", schema |-> <<>>, p |-> <<>>]

\* joblib.load(ruta_modelo): the object, or the exception it raises
joblib_load(store, ruta_modelo) ==
    IF ruta_modelo \notin DOMAIN store THEN Raise("FileNotFoundError")
    ELSE IF store[ruta_modelo] = Corrupt THEN Raise("Exception")
    ELSE Return(store[ruta_modelo])

Line(msg, arg) ==
    [msg |-> msg, arg |-> arg]

LoadFailed_raise(e, ruta_modelo) ==
    [ret |-> Raise(e), print |-> <<>>]

\* the two except branches: print a line and fall off the end (return None)
LoadFailed(e, ruta_modelo) ==
    [ret |-> Return(None),
     print |-> IF e = "FileNotFoundError"
               THEN <<Line("No se encontró el archivo en la ruta: ", ruta_modelo)>>
               ELSE <<Line("Error al cargar el modelo: ", e)>>]

CargarModelo(store, ruta_modelo) ==
    LET loaded == joblib_load(store, ruta_modelo)
    IN  IF loaded.kind = "return"
        THEN [ret |-> Return(loaded.val),
              print |-> <<Line("Modelo cargado correctamente desde: ", ruta_modelo)>>]
        ELSE LoadFailed(loaded.err, ruta_modelo)

\* modelo.predict_proba(df) raises: no such method, an internal failure, or a
\* table whose columns are not the schema the model was fitted on
PredictRaises(modelo, t) ==
    \/ modelo.kind # "model"
    \/ columns(t) # modelo.schema

\* modelo.predict_proba(df)[:, 1]
predict_proba_1(modelo, t) ==
    [i \in 1..NRows(t) |-> modelo.p[Col(t, "A")[i]]]

Pred_gt(prob, umbral) ==
    IF Gt(prob, umbral) THEN Entero(1) ELSE Entero(0)

\* np.where(df["PROB_FRAUDE"] >= umbral, 1, 0) for one row
Pred(prob, umbral) ==
    IF Ge(prob, umbral) THEN Entero(1) ELSE Entero(0)

ScoreFailed_raise(t, e) ==
    [ret |-> Raise(e), print |-> <<>>]

\* the except branch: print a line, return the local df
ScoreFailed(t, e) ==
    [ret |-> Return(t), print |-> <<Line("Error al ejecutar el modelo: ", e)>>]

\* a threshold that is no number makes the comparison raise TypeError
EjecutarModelo(modelo, t, umbral) ==
    IF PredictRaises(modelo, t) THEN ScoreFailed(t, "predict_proba")
    ELSE LET conProb == SetColumn(t, "PROB_FRAUDE", predict_proba_1(modelo, t))
         IN  IF ~IsNum(umbral) /\ ~isna(umbral) THEN ScoreFailed(conProb, "TypeError")
             ELSE [ret |-> Return(SetColumn(conProb, "PRED_FRAUDE",
                        [i \in 1..NRows(t) |->
                            Pred(Col(conProb, "PROB_FRAUDE")[i], umbral)])),
                   print |-> <<Line("Predicciones generadas correctamente (umbral = ",
                                    umbral)>>]

\* the default of umbral, 0.565, in thousandths
UmbralMilli == 565

Rutas ==
    {"modelo.joblib", "no_existe.joblib"}

Stores ==
    [{"modelo.joblib"} -> Objetos \cup {Corrupt}]

Umbrales ==
    {Milli(500), Milli(600), NaN, Str(<<"x">>)}

\* prepared feature tables: column "A", or "A" and "B", of 0/1 cells
TablasModelo ==
    UNION {{<<[name |-> "A", vals |-> a]>> : a \in [1..m -> {Cero, Uno}]}
           \cup
           {<<[name |-> "A", vals |-> a], [name |-> "B", vals |-> b]>> :
                a \in [1..m -> {Cero, Uno}], b \in [1..m -> {Cero, Uno}]} :
           m \in 1..(MaxRows - 1)}

InitModelo ==
    /\ df \in TablasModelo
    /\ env \in Stores
    /\ hist = <<>>
    /\ ret = Return(None)
    /\ out = <<>>

cargar_modelo(ruta_modelo) ==
    /\ hist = <<>>
    /\ LET r == CargarModelo(env, ruta_modelo)
       IN  /\ ret' = r.ret
           /\ out' = out \o r.print
    /\ hist' = Append(hist, Call("cargar_modelo", ruta_modelo, df))
    /\ UNCHANGED <<df, env>>

\* scoring with whatever the load returned
ejecutar_modelo(umbral) ==
    /\ Len(hist) = 1
    /\ Last.op = "cargar_modelo"
    /\ ret.kind = "return"
    /\ LET r == EjecutarModelo(ret.val, df, umbral)
       IN  /\ ret' = r.ret
           /\ out' = out \o r.print
    /\ hist' = Append(hist, Call("ejecutar_modelo",
            [modelo |-> ret.val, umbral |-> umbral], df))
    /\ UNCHANGED <<df, env>>

Cargar ==
    \E ruta_modelo \in Rutas : cargar_modelo(ruta_modelo)

Ejecutar ==
    \E umbral \in Umbrales : ejecutar_modelo(umbral)

EjecutarPorDefecto ==
    ejecutar_modelo(Milli(UmbralMilli))

NextModelo ==
    \/ Cargar
    \/ Ejecutar
    \/ EjecutarPorDefecto

SpecModelo ==
    InitModelo /\ [][NextModelo]_vars

LastLine ==
    out[Len(out)]

Scored ==
    hist # <<>> /\ Last.op = "ejecutar_modelo"

ArtifactRaised ==
    /\ Scored
    /\ \/ Last.args.modelo.kind # "model"
       \/ columns(Last.before) # Last.args.modelo.schema

\* C1: when the artifact raises during scoring, ejecutar_modelo lets no
\* exception out and returns the unscored table: the columns and cells of the
\* input, with neither PROB_FRAUDE nor PRED_FRAUDE.
C1_Passthrough ==
    ArtifactRaised =>
        /\ ret.kind = "return"
        /\ ret.val = Last.before
        /\ \A j \in 1..Len(ret.val) :
                ret.val[j].name \notin {"PROB_FRAUDE", "PRED_FRAUDE"}
        /\ df = Last.before

C1_Witness ==
    /\ ArtifactRaised
    /\ Last.args.modelo.kind = "model"
    /\ Last.args.modelo.schema = <<"A">>
    /\ columns(Last.before) = <<"A", "B">>
    /\ LastLine.msg = "Error al ejecutar el modelo: "

ScoringSucceeded ==
    /\ Scored
    /\ LastLine.msg = "Predicciones generadas correctamente (umbral = "

\* C2: when scoring succeeds the result is the input table, columns and rows
\* as they were, followed by PROB_FRAUDE (the artifact's probability of the
\* row) and PRED_FRAUDE, 1 where PROB_FRAUDE >= threshold and 0 elsewhere;
\* at the default 0.565, 0.6 gives 1, 0.565 gives 1 and 0.5 gives 0.
C2_Scored ==
    ScoringSucceeded =>
        LET n == Len(Last.before)
            m == Last.args.modelo
            u == Last.args.umbral
        IN  /\ ret.kind = "return"
            /\ Len(ret.val) = n + 2
            /\ SubSeq(ret.val, 1, n) = Last.before
            /\ ret.val[n + 1].name = "PROB_FRAUDE"
            /\ ret.val[n + 2].name = "PRED_FRAUDE"
            /\ Len(ret.val[n + 1].vals) = NRows(Last.before)
            /\ Len(ret.val[n + 2].vals) = NRows(Last.before)
            /\ \A i \in 1..NRows(Last.before) :
                LET prob == ret.val[n + 1].vals[i]
                    pred == ret.val[n + 2].vals[i]
                IN  /\ prob = m.p[Last.before[1].vals[i]]
                    /\ pred = IF u.k = "num" /\ prob.v >= u.v THEN Uno ELSE Cero
                    /\ u = Milli(565) =>
                        /\ prob = Milli(600) => pred = Uno
                        /\ prob = Milli(565) => pred = Uno
                        /\ prob = Milli(500) => pred = Cero

C2_Witness ==
    /\ ScoringSucceeded
    /\ Last.args.umbral = Milli(565)
    /\ columns(ret.val) = <<"A", "B", "PROB_FRAUDE", "PRED_FRAUDE">>
    /\ Col(ret.val, "PROB_FRAUDE") = <<Milli(600), Milli(500)>>
    /\ Col(ret.val, "PRED_FRAUDE") = <<Uno, Cero>>

Loaded ==
    hist # <<>> /\ Last.op = "cargar_modelo"

LoadFails ==
    /\ Loaded
    /\ \/ Last.args \notin DOMAIN env
       \/ env[Last.args] = Corrupt

\* C3 as stated: a failed load surfaces as an error, one kind when the
\* identifier does not resolve and another for any other failure, and never
\* as a normally returned value.
C3_Original ==
    LoadFails =>
        /\ ret.kind = "raise"
        /\ (Last.args \notin DOMAIN env) <=> (ret.err = "FileNotFoundError")

\* C3 amended: cargar_modelo never raises; when the identifier does not
\* resolve it prints a not-found line, for any other load failure a distinct
\* load-error line, and in both cases it returns None as a normal value; a
\* load that succeeds returns the stored object.
C3_Amended ==
    Loaded =>
        /\ ret.kind = "return"
        /\ Len(out) = 1
        /\ IF Last.args \notin DOMAIN env
           THEN /\ ret.val = None
                /\ LastLine.msg = "No se encontró el archivo en la ruta: "
           ELSE IF env[Last.args] = Corrupt
           THEN /\ ret.val = None
                /\ LastLine.msg = "Error al cargar el modelo: "
           ELSE /\ ret.val = env[Last.args]
                /\ ret.val # None
                /\ LastLine.msg = "Modelo cargado correctamente desde: "

C3_Witness ==
    /\ LoadFails
    /\ Last.args = "no_existe.joblib"
    /\ ret = Return(None)
    /\ out = <<Line("No se encontró el archivo en la ruta: ", "no_existe.joblib")>>

====
